---------------------------- MODULE Spec2Model ----------------------------
(***************************************************************************)
(* Model of privsematt (src/main.go): the attendance endpoint.             *)
(*                                                                         *)
(*   checkAuthorization   the allow-list check on the Authorization header *)
(*   submitHandler        auth -> parse -> db.Create -> go DialAndSend     *)
(*                                                                         *)
(* Strings are sequences of one-character strings, so that splitting and   *)
(* byte-wise comparison are computed and not assumed.                      *)
(***************************************************************************)
EXTENDS Integers, Sequences, FiniteSets, TLC

VARIABLES
    conf,    \* conf.AllowedAuthorizationTokens: a sequence of tokens
    now,     \* the server clock read by time.Now()
    db,      \* the rows of the records table, in insertion order
    req,     \* per request: the position and locals of its submitHandler call
    mails,   \* the goroutines started by submitHandler, in creation order
    call     \* the argument and result of a direct call of checkAuthorization

vars == <<conf, now, db, req, mails, call>>

----------------------------------------------------------------------------
(* Bounds *)

\* number of requests the server receives
MaxReqs == 2
\* largest clock reading
MaxClock == 1
\* longest token / header tail, in characters
MaxTokLen == 2
\* longest allow-list
MaxList == 2

Reqs == 1..MaxReqs

----------------------------------------------------------------------------
(* Strings *)

SP == " "

Basic == <<"B", "a", "s", "i", "c">>

\* all sequences over alphabet A of length at most n
RECURSIVE SeqsUpTo(_, _)
SeqsUpTo(A, n) ==
    IF n = 0 THEN {<<>>}
    ELSE LET shorter == SeqsUpTo(A, n - 1)
         IN  shorter \cup {Append(s, c) : s \in {t \in shorter : Len(t) = n - 1}, c \in A}

Range(s) == {s[i] : i \in DOMAIN s}

\* strings.Index(s, " "): position of the first space, 0 when there is none
RECURSIVE IndexFrom(_, _, _)
IndexFrom(s, c, i) ==
    IF i > Len(s) THEN 0
    ELSE IF s[i] = c THEN i
    ELSE IndexFrom(s, c, i + 1)

\* strings.Split(s, " ") in place of SplitN: cut at every separator
RECURSIVE SplitAll(_)
SplitAll(s) ==
    LET i == IndexFrom(s, SP, 1)
    IN  IF i = 0 THEN <<s>>
        ELSE <<SubSeq(s, 1, i - 1)>> \o SplitAll(SubSeq(s, i + 1, Len(s)))

\* strings.SplitN(s, " ", 2): at most two pieces, cut at the first separator
SplitN2(s) ==
    LET i == IndexFrom(s, SP, 1)
    IN  IF i = 0 THEN <<s>>
        ELSE <<SubSeq(s, 1, i - 1), SubSeq(s, i + 1, Len(s))>>

\* subtle.ConstantTimeCompare's loop: v |= x[i] ^ y[i] over every index
RECURSIVE XorFold(_, _, _, _)
XorFold(x, y, i, v) ==
    IF i > Len(x) THEN v
    ELSE XorFold(x, y, i + 1, IF x[i] = y[i] THEN v ELSE 1)

\* subtle.ConstantTimeCompare(x, y): 1 when equal, 0 otherwise
ConstantTimeCompare(x, y) ==
    IF Len(x) # Len(y) THEN 0
    ELSE IF XorFold(x, y, 1, 0) = 0 THEN 1 ELSE 0

\* a comparison loop that leaves at the first differing byte
RECURSIVE XorFoldWorkEarlyExit(_, _, _, _)
XorFoldWorkEarlyExit(x, y, i, n) ==
    IF i > Len(x) THEN n
    ELSE IF x[i] # y[i] THEN n + 1
    ELSE XorFoldWorkEarlyExit(x, y, i + 1, n + 1)

\* the number of bytes subtle.ConstantTimeCompare's loop looks at
RECURSIVE XorFoldWork(_, _, _, _)
XorFoldWork(x, y, i, n) ==
    IF i > Len(x) THEN n
    ELSE XorFoldWork(x, y, i + 1, n + 1)

\* the work of subtle.ConstantTimeCompare(x, y): none when the lengths
\* differ, the whole loop otherwise
CompareWork(x, y) ==
    IF Len(x) # Len(y) THEN 0 ELSE XorFoldWork(x, y, 1, 0)

----------------------------------------------------------------------------
(* checkAuthorization *)

StatusBadRequest == 400
StatusUnauthorized == 401
StatusOK == 200

\* r.Header.Get("Authorization"): "" when the header is absent
HeaderGet(h) == IF h.present THEN h.value ELSE <<>>

\* a loop that denies as soon as one entry differs
FirstMatchFirstOnly(token, list, i) ==
    IF i > Len(list) THEN 0
    ELSE IF ConstantTimeCompare(token, list[i]) = 1 THEN i
    ELSE 0

\* the range loop over the allow-list: index of the first entry equal to
\* token, 0 when the loop runs to the end of the list
RECURSIVE FirstMatch(_, _, _)
FirstMatch(token, list, i) ==
    IF i > Len(list) THEN 0
    ELSE IF ConstantTimeCompare(token, list[i]) = 1 THEN i
    ELSE FirstMatch(token, list, i + 1)

\* checkAuthorization without the open-access branch of lines 120-122
checkAuthorizationClosed(list, h) ==
    LET auth == SplitN2(HeaderGet(h))
    IN  IF Len(auth) # 2 \/ auth[1] # Basic
        THEN [ok |-> FALSE, status |-> StatusBadRequest, compared |-> 0]
        ELSE LET m == FirstMatch(auth[2], list, 1)
             IN  IF m # 0
                 THEN [ok |-> TRUE, status |-> 0, compared |-> m]
                 ELSE [ok |-> FALSE, status |-> StatusUnauthorized,
                       compared |-> Len(list)]

\* what checkAuthorization returns (ok) and what it writes to w (status, 0
\* when nothing is written); compared = number of entries compared
checkAuthorization(list, h) ==
    IF Len(list) = 0
    THEN [ok |-> TRUE, status |-> 0, compared |-> 0]
    ELSE LET auth == SplitN2(HeaderGet(h))
         IN  IF Len(auth) # 2 \/ auth[1] # Basic
             THEN [ok |-> FALSE, status |-> StatusBadRequest, compared |-> 0]
             ELSE LET m == FirstMatch(auth[2], list, 1)
                  IN  IF m # 0
                      THEN [ok |-> TRUE, status |-> 0, compared |-> m]
                      ELSE [ok |-> FALSE, status |-> StatusUnauthorized,
                            compared |-> Len(list)]

----------------------------------------------------------------------------
(* json.Unmarshal into a Request *)

\* the zero Request: var request Request
ZeroRequest == [Name |-> <<>>, SurfId |-> <<>>, EMail |-> <<>>]

\* JSON values, as far as decoding into a struct of strings tells them apart
JNull == [kind |-> "null", s |-> <<>>]
JNumber == [kind |-> "number", s |-> <<>>]
JString(s) == [kind |-> "string", s |-> s]
JArray == [kind |-> "array", s |-> <<>>]

Member(k, v) == [key |-> k, val |-> v]

\* the value of the form field "request": absent, not JSON, or a JSON value
NoField == [present |-> FALSE, syntax |-> FALSE, kind |-> "none", members |-> <<>>]
NotJSON == [present |-> TRUE, syntax |-> FALSE, kind |-> "none", members |-> <<>>]
JSONValue(k) == [present |-> TRUE, syntax |-> TRUE, kind |-> k, members |-> <<>>]
JSONObject(ms) == [present |-> TRUE, syntax |-> TRUE, kind |-> "object", members |-> ms]

\* the field of Request a JSON key decodes into: encoding/json matches the
\* field name exactly or under case folding; any other key is skipped
FieldFor(key) ==
    CASE key \in {"Name", "name", "NAME"} -> "Name"
      [] key \in {"SurfId", "surfid", "SURFID"} -> "SurfId"
      [] key \in {"EMail", "email", "Email"} -> "EMail"
      [] OTHER -> "none"

\* decoding the members of an object in order: a string is stored, null
\* leaves the field alone, any other value is a type error that decoding
\* remembers while it goes on
RECURSIVE DecodeMembers(_, _, _)
DecodeMembers(ms, i, acc) ==
    IF i > Len(ms) THEN acc
    ELSE LET f == FieldFor(ms[i].key)
             v == ms[i].val
         IN  DecodeMembers(ms, i + 1,
                 IF f = "none" \/ v.kind = "null" THEN acc
                 ELSE IF v.kind = "string"
                      THEN [acc EXCEPT !.request = [@ EXCEPT ![f] = v.s]]
                      ELSE [acc EXCEPT !.err = TRUE])

\* json.Unmarshal([]byte(r.FormValue("request")), &request)
Unmarshal(p) ==
    IF ~p.present \/ ~p.syntax THEN [err |-> TRUE, request |-> ZeroRequest]
    ELSE IF p.kind = "null" THEN [err |-> FALSE, request |-> ZeroRequest]
    ELSE IF p.kind = "object"
         THEN DecodeMembers(p.members, 1, [err |-> FALSE, request |-> ZeroRequest])
         ELSE [err |-> TRUE, request |-> ZeroRequest]

----------------------------------------------------------------------------
(* Inputs *)

TokChars == {"a", SP}

\* tokens: what an allow-list entry or the text after "Basic " may be
Tokens == SeqsUpTo(TokChars, MaxTokLen)

\* allow-lists of a direct call of checkAuthorization
AllowLists == UNION {[1..n -> Tokens] : n \in 0..MaxList}

\* allow-lists the server is started with
ServerConfs == {<<>>, <<<<SP, "a">>, <<"a">>>>}

Schemes == {<<>>, Basic, <<"b", "a", "s", "i", "c">>, <<"B", "a", "s", "i">>,
            <<"B", "a", "s", "i", "c", "c">>}

NoHeader == [present |-> FALSE, value |-> <<>>]

\* Authorization headers: absent, or a scheme followed by up to
\* MaxTokLen + 1 characters (separators and token)
Headers ==
    {NoHeader} \cup
    {[present |-> TRUE, value |-> sch \o t] :
        sch \in Schemes, t \in SeqsUpTo(TokChars, MaxTokLen + 1)}

\* Authorization headers of the requests the server receives
ServerHeaders ==
    {NoHeader} \cup
    {[present |-> TRUE, value |-> v] :
        v \in {<<>>, Basic, Basic \o <<SP>>, Basic \o <<SP, "a">>,
               Basic \o <<SP, SP, "a">>, Basic \o <<SP, "a", SP>>,
               Basic \o <<SP, "a", "a">>, <<"a">>, <<SP, "a">>,
               <<"b", "a", "s", "i", "c", SP, "a">>,
               <<"B", "a", "s", "i", SP, "a">>}}

\* (Name, EMail) pairs of the well-formed submissions
Fields == {<<<<SP, "n", SP>>, <<"e">>>>}

FullObject(kn, ks, ke, n, e) ==
    <<Member(kn, JString(n)), Member(ks, JString(<<"s">>)), Member(ke, JString(e))>>

\* values of the form field "request"
Payloads ==
    {NoField, NotJSON, JSONValue("null"), JSONValue("array"),
     JSONValue("number"), JSONValue("string"), JSONObject(<<>>)}
    \cup {JSONObject(FullObject("Name", "SurfId", "EMail", f[1], f[2])) : f \in Fields}
    \cup {JSONObject(FullObject("name", "surfid", "email", <<SP, "n", SP>>, <<"e">>)),
          JSONObject(<<Member("Name", JNull), Member("EMail", JNull)>>),
          JSONObject(<<Member("Name", JNumber), Member("EMail", JString(<<"e">>))>>),
          JSONObject(<<Member("Name", JString(<<"n">>)), Member("SurfId", JArray)>>),
          JSONObject(FullObject("Name", "SurfId", "EMail", <<SP, "n", SP>>, <<"e">>)
                     \o <<Member("When", JString(<<"w">>)), Member("ID", JNumber)>>),
          JSONObject(<<Member("When", JNumber), Member("ID", JNumber)>>
                     \o FullObject("Name", "SurfId", "EMail", <<SP, "n", SP>>, <<"e">>))}

----------------------------------------------------------------------------
(* submitHandler *)

\* strings.TrimSpace
RECURSIVE TrimSpace(_)
TrimSpace(x) ==
    IF Len(x) = 0 THEN x
    ELSE IF Head(x) = SP THEN TrimSpace(Tail(x))
    ELSE IF x[Len(x)] = SP THEN TrimSpace(SubSeq(x, 1, Len(x) - 1))
    ELSE x

\* a record built from normalised fields
NewRecordTrimmed(request, t) ==
    [ID |-> 0, When |-> t, Name |-> TrimSpace(request.Name),
     SurfId |-> TrimSpace(request.SurfId), EMail |-> TrimSpace(request.EMail)]

\* the Record struct before db.Create: ID is the zero value
NewRecord(request, t) ==
    [ID |-> 0, When |-> t, Name |-> request.Name,
     SurfId |-> request.SurfId, EMail |-> request.EMail]

ZeroRecord == NewRecord(ZeroRequest, 0)

\* locals of a submitHandler call that has not started
IdleCall ==
    [pc |-> "idle", status |-> 0, authOk |-> FALSE,
     err |-> FALSE, request |-> ZeroRequest, record |-> ZeroRecord, dberr |-> FALSE]

\* the handler returns: a response nothing was written to goes out as 200 OK
Return(rq) ==
    [rq EXCEPT !.pc = "done",
               !.status = IF rq.status = 0 THEN StatusOK ELSE rq.status]

\* the handler without the return of line 145
AuthStepNoReturn(rq, a) ==
    [rq EXCEPT !.pc = "parse", !.authOk = a.ok, !.status = a.status]

\* if !checkAuthorization(w, r) { return }
AuthStep(rq, a) ==
    IF a.ok
    THEN [rq EXCEPT !.pc = "parse", !.authOk = TRUE]
    ELSE Return([rq EXCEPT !.authOk = FALSE, !.status = a.status])

\* the handler without the return of line 152
ParseStepNoReturn(rq, u, t) ==
    [rq EXCEPT !.pc = "create", !.err = u.err, !.request = u.request,
               !.status = IF u.err THEN StatusBadRequest ELSE rq.status,
               !.record = NewRecord(u.request, t)]

\* a handler that mails the confirmation without calling db.Create
ParseStepSkipCreate(rq, u, t) ==
    IF u.err
    THEN Return([rq EXCEPT !.err = TRUE, !.status = StatusBadRequest])
    ELSE [rq EXCEPT !.pc = "go", !.err = FALSE, !.request = u.request,
                    !.record = NewRecord(u.request, t)]

\* a handler that refuses a submission with an empty field
ParseStepValidating(rq, u, t) ==
    IF u.err \/ u.request.Name = <<>> \/ u.request.SurfId = <<>>
             \/ u.request.EMail = <<>>
    THEN Return([rq EXCEPT !.err = u.err, !.request = u.request,
                           !.status = StatusBadRequest])
    ELSE [rq EXCEPT !.pc = "create", !.err = FALSE, !.request = u.request,
                    !.record = NewRecord(u.request, t)]

\* err := json.Unmarshal(...); if err != nil { http.Error(.., 400); return }
\* record := Record{When: time.Now(), ...}
ParseStep(rq, u, t) ==
    IF u.err
    THEN Return([rq EXCEPT !.err = TRUE, !.status = StatusBadRequest])
    ELSE [rq EXCEPT !.pc = "create", !.err = FALSE, !.request = u.request,
                    !.record = NewRecord(u.request, t)]

\* whether an object has a member under the key k
HasMember(p, k) == \E i \in DOMAIN p.members : p.members[i].key = k

\* a handler that decodes the form field into the Record itself, so that
\* a When member of the payload replaces the clock reading
HandlerParseIntoRecord(rq, p, t) ==
    LET next == ParseStep(rq, Unmarshal(p), t)
    IN  IF next.pc = "create" /\ HasMember(p, "When")
        THEN [next EXCEPT !.record.When = MaxClock + 1]
        ELSE next

\* lines 148-160 on the form field p at clock reading t
HandlerParse(rq, p, t) == ParseStep(rq, Unmarshal(p), t)

\* the primary key the table gives a row inserted without one
RECURSIVE MaxID(_, _)
MaxID(rows, i) ==
    IF i > Len(rows) THEN 0
    ELSE LET m == MaxID(rows, i + 1)
         IN  IF rows[i].ID > m THEN rows[i].ID ELSE m

NextID(rows) == MaxID(rows, 1) + 1

\* a write that updates the latest row instead of adding one
InsertReplace(rows, record) ==
    IF Len(rows) = 0 THEN Append(rows, [record EXCEPT !.ID = 1])
    ELSE [rows EXCEPT ![Len(rows)] = [record EXCEPT !.ID = rows[Len(rows)].ID]]

\* a write that skips a submission the table already holds
InsertDedup(rows, record) ==
    IF \E i \in DOMAIN rows : /\ rows[i].Name = record.Name
                              /\ rows[i].SurfId = record.SurfId
                              /\ rows[i].EMail = record.EMail
    THEN rows
    ELSE Append(rows, [record EXCEPT !.ID = NextID(rows)])

\* db.Create(&record) when it succeeds: one new row, under a fresh key
Insert(rows, record) == Append(rows, [record EXCEPT !.ID = NextID(rows)])

\* a handler that answers 500 and returns when db.Create fails
CreateStepFailFast(rq, rows, e) ==
    IF e
    THEN [rq EXCEPT !.pc = "done", !.dberr = TRUE, !.status = 500]
    ELSE [rq EXCEPT !.pc = "go", !.dberr = FALSE, !.record.ID = NextID(rows)]

\* if err := db.Create(&record).Error; err != nil { log.Printf(...) }
CreateStep(rq, rows, e) ==
    IF e
    THEN [rq EXCEPT !.pc = "go", !.dberr = TRUE]
    ELSE [rq EXCEPT !.pc = "go", !.dberr = FALSE, !.record.ID = NextID(rows)]

\* a message addressed with the wrong field of the record
NewMessageToName(record) ==
    [To |-> record.Name, Name |-> record.Name, When |-> record.When]

\* m := gomail.NewMessage(); m.SetHeader("To", record.EMail); m.SetBody(...)
NewMessage(record) ==
    [To |-> record.EMail, Name |-> record.Name, When |-> record.When]

\* the send called in the handler itself: it has returned when the handler goes on
GoSendSync(ms, r, m) ==
    Append(ms, [req |-> r, msg |-> m, state |-> "sent", attempts |-> 1])

\* go func(m *gomail.Message) { ... }(m): one new goroutine holding m
\* whose only statement is the call mailer.DialAndSend(m)
GoSend(ms, r, m) ==
    Append(ms, [req |-> r, msg |-> m, state |-> "sending", attempts |-> 1])

\* a goroutine that calls DialAndSend again after an error
SendReturnsRetry(g, e) ==
    IF e THEN [g EXCEPT !.attempts = @ + 1] ELSE [g EXCEPT !.state = "sent"]

\* a handler that waits for the result of the send before it returns
GoStepWait(rq) == [rq EXCEPT !.pc = "wait"]

\* the handler after the go statement: it returns at once (lines 183-184)
GoStep(rq) == Return(rq)

\* mailer.DialAndSend returns: an error is logged, and the goroutine ends
SendReturns(g, e) == [g EXCEPT !.state = IF e THEN "failed" ELSE "sent"]

----------------------------------------------------------------------------
(* The server *)

NoRet == [ok |-> FALSE, status |-> 0, compared |-> 0]
NoCall == [header |-> NoHeader, done |-> FALSE, ret |-> NoRet]

Init ==
    /\ conf \in ServerConfs
    /\ now = 0
    /\ db = <<>>
    /\ req = [r \in Reqs |-> IdleCall]
    /\ mails = <<>>
    /\ call = NoCall

\* a request arrives and its handler runs checkAuthorization (lines 141-146)
Authorize(r) ==
    /\ req[r].pc = "idle"
    /\ \A q \in Reqs : q < r => req[q].pc # "idle"
    /\ \E h \in ServerHeaders :
          req' = [req EXCEPT ![r] = AuthStep(@, checkAuthorization(conf, h))]
    /\ UNCHANGED <<conf, now, db, mails, call>>

\* the handler decodes the form field and builds the record (lines 148-160)
Parse(r) ==
    /\ req[r].pc = "parse"
    /\ \E p \in Payloads :
          req' = [req EXCEPT ![r] = HandlerParse(@, p, now)]
    /\ UNCHANGED <<conf, now, db, mails, call>>

\* db.Create returns, with or without an error (lines 162-164)
Create(r) ==
    /\ req[r].pc = "create"
    /\ \E e \in BOOLEAN :
          /\ db' = IF e THEN db ELSE Insert(db, req[r].record)
          /\ req' = [req EXCEPT ![r] = CreateStep(@, db, e)]
    /\ UNCHANGED <<conf, now, mails, call>>

\* the handler builds the message, starts the goroutine and returns; the
\* response goes out (lines 166-184)
Go(r) ==
    /\ req[r].pc = "go"
    /\ mails' = GoSend(mails, r, NewMessage(req[r].record))
    /\ req' = [req EXCEPT ![r] = GoStep(@)]
    /\ UNCHANGED <<conf, now, db, call>>

\* DialAndSend returns, with or without an error (lines 180-182)
Sent(i) ==
    /\ mails[i].state = "sending"
    /\ \E e \in BOOLEAN : mails' = [mails EXCEPT ![i] = SendReturns(@, e)]
    /\ UNCHANGED <<conf, now, db, req, call>>

\* the clock advances
Tick ==
    /\ now < MaxClock
    /\ now' = now + 1
    /\ UNCHANGED <<conf, db, req, mails, call>>

Next ==
    \/ \E r \in Reqs : Authorize(r)
    \/ \E r \in Reqs : Parse(r)
    \/ \E r \in Reqs : Create(r)
    \/ \E r \in Reqs : Go(r)
    \/ \E i \in DOMAIN mails : Sent(i)
    \/ Tick

Spec == Init /\ [][Next]_vars

\* the server when every running handler is scheduled again and again and
\* db.Create always returns; nothing is assumed of arrivals, of the clock
\* or of DialAndSend, which may never return
LiveSpec ==
    /\ Spec
    /\ \A r \in Reqs : WF_vars(Parse(r)) /\ WF_vars(Create(r)) /\ WF_vars(Go(r))

----------------------------------------------------------------------------
(* checkAuthorization called on its own, over every allow-list and header *)

InitAuth ==
    /\ conf \in AllowLists
    /\ now = 0
    /\ db = <<>>
    /\ req = [r \in Reqs |-> IdleCall]
    /\ mails = <<>>
    /\ \E h \in Headers : call = [header |-> h, done |-> FALSE, ret |-> NoRet]

CallCheckAuthorization ==
    /\ ~call.done
    /\ call' = [call EXCEPT !.done = TRUE,
                            !.ret = checkAuthorization(conf, call.header)]
    /\ UNCHANGED <<conf, now, db, req, mails>>

NextAuth == CallCheckAuthorization

SpecAuth == InitAuth /\ [][NextAuth]_vars

----------------------------------------------------------------------------
(* Two authorized submissions decoded at one clock reading, then stored *)

\* a handler whose checkAuthorization has returned true
Authorized == AuthStep(IdleCall, [ok |-> TRUE, status |-> 0, compared |-> 0])

InitParse ==
    /\ conf = <<>>
    /\ now \in 0..MaxClock
    /\ db = <<>>
    /\ req = [r \in Reqs |-> IdleCall]
    /\ mails = <<>>
    /\ \E p1 \in Payloads, p2 \in Payloads :
          call = [payload |-> <<p1, p2>>, done |-> FALSE,
                  out |-> <<Authorized, Authorized>>]

\* both handlers decode and build their records (lines 148-160)
ParsePair ==
    /\ ~call.done
    /\ call' = [call EXCEPT
                  !.done = TRUE,
                  !.out = <<HandlerParse(call.out[1], call.payload[1], now),
                            HandlerParse(call.out[2], call.payload[2], now)>>]
    /\ UNCHANGED <<conf, now, db, req, mails>>

\* both handlers' db.Create succeed (line 162)
StorePair ==
    /\ call.done /\ db = <<>>
    /\ call.out[1].pc = "create" /\ call.out[2].pc = "create"
    /\ db' = Insert(Insert(db, call.out[1].record), call.out[2].record)
    /\ UNCHANGED <<conf, now, req, mails, call>>

NextParse == ParsePair \/ StorePair

SpecParse == InitParse /\ [][NextParse]_vars

----------------------------------------------------------------------------
(* Terminal states of a request, read off the handler's locals *)

Rejected(rq) == rq.pc # "idle" /\ ~rq.authOk
Invalid(rq) == rq.authOk /\ rq.err
Accepted(rq) == rq.pc = "done" /\ rq.authOk /\ ~rq.err

\* the goroutines started by request r's handler
MailsOf(r) == {i \in DOMAIN mails : mails[i].req = r}

\* the rows stored under the key request r's record was given
RowsOf(r) == {i \in DOMAIN db : db[i].ID = req[r].record.ID}

----------------------------------------------------------------------------
(* checkAuthorization: C1, C2 *)

\* C1: with an empty allow-list checkAuthorization returns true for every
\* header (absent, empty, any scheme, any token) and writes no response.
C1_OpenAccess ==
    (call.done /\ Len(conf) = 0) => (call.ret.ok /\ call.ret.status = 0)

C1_Witness ==
    /\ call.done /\ Len(conf) = 0
    /\ call.header.present /\ call.header.value = <<"a">>
    /\ call.ret.ok

\* the header has no space separator
NoSpace(v) == \A k \in DOMAIN v : v[k] # SP

FirstSpace(v) == CHOOSE k \in DOMAIN v : v[k] = SP /\ \A j \in 1..(k - 1) : v[j] # SP

BeforeFirstSpace(v) == SubSeq(v, 1, FirstSpace(v) - 1)
AfterFirstSpace(v) == SubSeq(v, FirstSpace(v) + 1, Len(v))

Malformed(h) ==
    \/ ~h.present
    \/ NoSpace(h.value)
    \/ BeforeFirstSpace(h.value) # Basic

\* C2: with a non-empty allow-list a request is allowed iff its header is
\* "Basic", one space and a token equal to some entry; otherwise it is
\* rejected with 400 when the header is absent, has no space or does not
\* start with exactly "Basic" before the first space, and with 401 when the
\* header is well-formed and the text after the first space is no entry.
C2_Decision ==
    (call.done /\ Len(conf) > 0) =>
        LET h == call.header
            entryMatches == \E i \in DOMAIN conf :
                               h.present /\ h.value = Basic \o <<SP>> \o conf[i]
        IN  /\ call.ret.ok <=> entryMatches
            /\ call.ret.ok => call.ret.status = 0
            /\ Malformed(h) <=> call.ret.status = StatusBadRequest
            /\ (~Malformed(h) /\ AfterFirstSpace(h.value) \notin Range(conf))
                   <=> call.ret.status = StatusUnauthorized

C2_Witness ==
    /\ call.done /\ Len(conf) = 2 /\ conf[1] # conf[2]
    /\ call.header.present
    /\ call.header.value = Basic \o <<SP>> \o conf[2]
    /\ SP \in Range(conf[2])
    /\ call.ret.ok

----------------------------------------------------------------------------
(* submitHandler: C3 - C10 *)

\* C3: a request checkAuthorization rejects ends at once with 400 or 401:
\* its payload is not decoded, it builds no record and starts no goroutine,
\* and the step that rejects it leaves the rows, the goroutines and the
\* allow-list as they were.
C3_RejectedNoEffect ==
    [][\A r \in Reqs :
          /\ Rejected(req'[r]) =>
                /\ req'[r].pc = "done"
                /\ req'[r].status \in {StatusBadRequest, StatusUnauthorized}
                /\ req'[r].request = ZeroRequest
                /\ req'[r].record = ZeroRecord
                /\ MailsOf(r)' = {}
          /\ (req[r].pc = "idle" /\ Rejected(req'[r])) =>
                (db' = db /\ mails' = mails /\ conf' = conf)
          /\ Rejected(req[r]) => req'[r] = req[r]]_vars

C3_Witness ==
    \E r \in Reqs :
        /\ Rejected(req[r]) /\ req[r].status = StatusUnauthorized
        /\ Len(db) > 0 /\ Len(mails) > 0

\* C4: an authorized request whose form field does not decode is answered
\* 400 and ends there: no record is built or stored for it and no
\* goroutine is started.
C4_InvalidNoEffect ==
    [][\A r \in Reqs :
          /\ Invalid(req'[r]) =>
                /\ req'[r].pc = "done"
                /\ req'[r].status = StatusBadRequest
                /\ req'[r].record = ZeroRecord
                /\ MailsOf(r)' = {}
          /\ (req[r].pc = "parse" /\ Invalid(req'[r])) =>
                (db' = db /\ mails' = mails)
          /\ Invalid(req[r]) => req'[r] = req[r]]_vars

C4_Witness ==
    \E r \in Reqs :
        /\ Invalid(req[r]) /\ req[r].pc = "done" /\ req[r].status = StatusBadRequest
        /\ Len(conf) > 0
        /\ Len(db) > 0

\* requests whose db.Create has returned without an error
Stored == {r \in Reqs : req[r].pc \in {"go", "done"} /\ req[r].authOk
                         /\ ~req[r].err /\ ~req[r].dberr}

\* C5: an authorized request with a decodable payload whose db.Create
\* succeeds stores exactly one row, holding the decoded Name, SurfId and
\* EMail unchanged and the clock reading taken while the handler ran, and
\* is answered 200.
C5_OneRecordVerbatim ==
    [][/\ \A r \in Stored' :
             /\ Cardinality(RowsOf(r)') = 1
             /\ \A i \in RowsOf(r)' :
                   /\ db'[i].Name = req'[r].request.Name
                   /\ db'[i].SurfId = req'[r].request.SurfId
                   /\ db'[i].EMail = req'[r].request.EMail
                   /\ db'[i].When = req'[r].record.When
             /\ req'[r].pc = "done" => req'[r].status = StatusOK
       /\ Len(db') = Cardinality(Stored')
       /\ \A r \in Reqs :
             /\ (req[r].pc = "parse" /\ req'[r].pc = "create") =>
                   req'[r].record.When = now
             /\ req[r].pc \in {"create", "go"} =>
                   (req[r].record.When <= now /\ req'[r].record.When = req[r].record.When)
       /\ now' >= now]_vars

C5_Witness ==
    \E r \in Stored :
        /\ req[r].pc = "done" /\ req[r].status = StatusOK
        /\ req[r].request.Name = <<SP, "n", SP>>
        /\ req[r].record.When = 1
        /\ Len(db) = 2

\* C6: when db.Create returns an error the handler goes on as on success:
\* the goroutine is started and the response is 200.
C6_StorageFailureHidden ==
    \A r \in Reqs :
        (req[r].pc # "idle" /\ req[r].dberr) =>
            /\ req[r].pc \in {"go", "done"}
            /\ req[r].pc = "done" =>
                  (req[r].status = StatusOK /\ Cardinality(MailsOf(r)) = 1)

C6_Witness ==
    \E r \in Reqs :
        /\ req[r].pc = "done" /\ req[r].dberr
        /\ req[r].status = StatusOK
        /\ Cardinality(MailsOf(r)) = 1
        /\ Len(db) = 0

\* C7: the handler returns in the step that starts the goroutine, with
\* the send still under way, and no return of DialAndSend (ok or error)
\* changes a request: the status of a response never depends on a send.
C7_ResponseDoesNotWait ==
    [][/\ \A r \in Reqs :
             (req[r].pc = "go" /\ req'[r].pc # "go") =>
                 /\ Accepted(req'[r]) /\ req'[r].status = StatusOK
                 /\ \E i \in MailsOf(r)' : mails'[i].state = "sending"
       /\ (\E i \in DOMAIN mails : mails'[i] # mails[i]) => req' = req
       /\ \A r \in Reqs : req[r].pc = "done" => req'[r] = req[r]]_vars

C7_Witness ==
    \E r, q \in Reqs :
        /\ Accepted(req[r]) /\ req[r].status = StatusOK
        /\ \E i \in MailsOf(r) : mails[i].state = "sending"
        /\ Accepted(req[q]) /\ req[q].status = StatusOK
        /\ \E i \in MailsOf(q) : mails[i].state = "failed"

\* C8: every accepted request has started exactly one goroutine, whose
\* message is addressed to the EMail of that request's record; a request
\* that is rejected, invalid or still running has started none; so the
\* number of goroutines equals the number of accepted requests.
C8_OneNotificationPerAccepted ==
    /\ \A r \in Reqs :
          /\ Cardinality(MailsOf(r)) = IF Accepted(req[r]) THEN 1 ELSE 0
          /\ \A i \in MailsOf(r) : mails[i].msg.To = req[r].record.EMail
    /\ Len(mails) = Cardinality({r \in Reqs : Accepted(req[r])})

C8_Witness ==
    \E r, q, p \in Reqs :
        /\ Accepted(req[r]) /\ Accepted(req[q])
        /\ req[r].record.EMail = <<"e">> /\ req[q].record.EMail = <<>>
        /\ Len(mails) = 2

\* C9: a message is handed to DialAndSend once: a goroutine never makes a
\* second call, and once the call has returned (sent or failed) the
\* goroutine, its message included, never changes again.
C9_NoRetry ==
    [][\A i \in DOMAIN mails :
          /\ i \in DOMAIN mails'
          /\ mails'[i].attempts <= 1
          /\ mails'[i].msg = mails[i].msg
          /\ mails[i].state \in {"sent", "failed"} => mails'[i] = mails[i]]_vars

C9_Witness ==
    \E i \in DOMAIN mails :
        /\ mails[i].state = "failed" /\ mails[i].attempts = 1
        /\ \E r \in Reqs : req[r].pc = "go"

\* C10: the table only grows: every step keeps every stored row as it is
\* (ID, When, Name, SurfId, EMail) and removes none.
C10_AppendOnly ==
    [][/\ Len(db') >= Len(db)
       /\ \A i \in DOMAIN db : db'[i] = db[i]]_vars

C10_Witness ==
    /\ Len(db) = 2
    /\ db[1].ID # db[2].ID
    /\ db[1].Name # db[2].Name

----------------------------------------------------------------------------
(* submitHandler: C11, C14, C17 *)

\* C11: submissions are not deduplicated: every request whose db.Create
\* succeeded has a row of its own, whatever the other requests submitted
\* and however their handlers interleave; the rows' IDs are pairwise
\* distinct, there are as many rows as successful writes, and every
\* accepted request has its own goroutine.
C11_NoDedup ==
    /\ \A i, j \in DOMAIN db : i # j => db[i].ID # db[j].ID
    /\ \A r \in Stored : Cardinality(RowsOf(r)) = 1
    /\ \A r, q \in Stored : r # q => RowsOf(r) \cap RowsOf(q) = {}
    /\ Len(db) = Cardinality(Stored)
    /\ \A r \in Reqs : Accepted(req[r]) => Cardinality(MailsOf(r)) = 1

C11_Witness ==
    \E r, q \in Stored :
        /\ r # q
        /\ Accepted(req[r]) /\ Accepted(req[q])
        /\ req[r].request = req[q].request
        /\ req[r].request.Name = <<SP, "n", SP>>
        /\ req[r].record.When = req[q].record.When
        /\ Len(db) = 2 /\ db[1].ID # db[2].ID
        /\ [db[1] EXCEPT !.ID = 0] = [db[2] EXCEPT !.ID = 0]
        /\ Len(mails) = 2

\* the positions a handler passes through, in order
PipelineSteps ==
    {<<"idle", "parse">>, <<"idle", "done">>, <<"parse", "create">>,
     <<"parse", "done">>, <<"create", "go">>, <<"go", "done">>}

\* how many of the three terminal states hold of a handler
Terminals(rq) ==
    (IF Rejected(rq) THEN 1 ELSE 0) + (IF Invalid(rq) THEN 1 ELSE 0)
        + (IF Accepted(rq) THEN 1 ELSE 0)

\* C14: a handler moves auth check -> decode -> db.Create -> go -> done
\* and leaves that line only to return after a failed check or decode:
\* the table is written only by a handler whose check and decode
\* succeeded, a goroutine is started only by a handler whose db.Create
\* has returned (with or without an error), and a handler that has
\* returned is in exactly one of Rejected, Invalid and Accepted.
C14_PipelineOrder ==
    [][/\ \A r \in Reqs :
             /\ req'[r].pc # req[r].pc => <<req[r].pc, req'[r].pc>> \in PipelineSteps
             /\ req'[r].pc \in {"create", "go"} => (req'[r].authOk /\ ~req'[r].err)
             /\ req'[r].pc = "done" => Terminals(req'[r]) = 1
             /\ req'[r].pc # "done" => ~Accepted(req'[r])
       /\ db' # db =>
             \E r \in Reqs : /\ req[r].pc = "create" /\ req'[r].pc = "go"
                             /\ req[r].authOk /\ ~req[r].err
                             /\ ~req'[r].dberr
       /\ Len(mails') # Len(mails) =>
             \E r \in Reqs : /\ req[r].pc = "go" /\ req'[r].pc = "done"
                             /\ mails' = Append(mails, mails'[Len(mails')])
                             /\ mails'[Len(mails')].req = r]_vars

C14_Witness ==
    \E r, q \in Reqs :
        /\ Accepted(req[r]) /\ req[r].dberr /\ Cardinality(MailsOf(r)) = 1
        /\ Invalid(req[q]) /\ req[q].pc = "done"
        /\ Len(db) = 0

\* a decoded submission with an empty or absent field
HasEmptyField(request) ==
    request.Name = <<>> \/ request.SurfId = <<>> \/ request.EMail = <<>>

\* C17: no field is validated: a handler that decoded a submission with an
\* empty or absent Name, SurfId or EMail goes on like any other: it is
\* never answered with an error, its record holds the empty values, and
\* when it has returned the response is 200, the stored row (if db.Create
\* succeeded) holds the empty values and the goroutine's message is
\* addressed to the possibly empty EMail.
C17_NoValidation ==
    \A r \in Reqs :
        (req[r].authOk /\ ~req[r].err /\ req[r].pc \notin {"idle", "parse"}
            /\ HasEmptyField(req[r].request)) =>
            /\ req[r].pc \in {"create", "go", "done"}
            /\ req[r].status \in {0, StatusOK}
            /\ req[r].record.Name = req[r].request.Name
            /\ req[r].record.SurfId = req[r].request.SurfId
            /\ req[r].record.EMail = req[r].request.EMail
            /\ req[r].pc = "done" =>
                  /\ req[r].status = StatusOK
                  /\ \E i \in MailsOf(r) : mails[i].msg.To = req[r].request.EMail
                  /\ ~req[r].dberr =>
                        \E i \in RowsOf(r) :
                            /\ db[i].Name = req[r].request.Name
                            /\ db[i].SurfId = req[r].request.SurfId
                            /\ db[i].EMail = req[r].request.EMail

C17_Witness ==
    \E r \in Reqs :
        /\ Accepted(req[r]) /\ req[r].status = StatusOK /\ ~req[r].dberr
        /\ req[r].request = ZeroRequest
        /\ \E i \in RowsOf(r) : db[i].Name = <<>> /\ db[i].EMail = <<>>
        /\ \E i \in MailsOf(r) : mails[i].msg.To = <<>>
        /\ Len(conf) > 0

----------------------------------------------------------------------------
(* checkAuthorization: C13, C16 *)

\* the token a well-formed header presents
Presented(h) == AfterFirstSpace(h.value)

Reverse(list) == [i \in DOMAIN list |-> list[Len(list) + 1 - i]]

\* C16: with a non-empty allow-list and a well-formed header the entries
\* are compared in list order: the call allows at the first entry equal to
\* the token, having found every earlier entry different, and denies with
\* 401 only after all entries were compared and none was equal; the
\* decision is the same for the list reversed and for the list repeated.
C16_ScanOrder ==
    (call.done /\ Len(conf) > 0 /\ ~Malformed(call.header)) =>
        LET tok == Presented(call.header)
            n == call.ret.compared
        IN  /\ call.ret.ok =>
                  /\ n \in DOMAIN conf /\ conf[n] = tok
                  /\ \A j \in 1..(n - 1) : conf[j] # tok
            /\ ~call.ret.ok =>
                  /\ call.ret.status = StatusUnauthorized
                  /\ n = Len(conf)
                  /\ \A j \in DOMAIN conf : conf[j] # tok
            /\ checkAuthorization(Reverse(conf), call.header).ok = call.ret.ok
            /\ checkAuthorization(conf \o conf, call.header).ok = call.ret.ok

C16_Witness ==
    /\ call.done /\ Len(conf) = 2 /\ ~Malformed(call.header)
    /\ conf[1] # conf[2]
    /\ Presented(call.header) = conf[2]
    /\ call.ret.ok /\ call.ret.compared = 2

----------------------------------------------------------------------------
(* submitHandler: C12 *)

\* the members of an object other than When and ID
Core(p) == SelectSeq(p.members, LAMBDA m : m.key \notin {"When", "ID"})

\* two payloads that agree on everything but When and ID members
Agree(p1, p2) ==
    /\ p1.present /\ p1.syntax /\ p1.kind = "object"
    /\ p2.present /\ p2.syntax /\ p2.kind = "object"
    /\ Core(p1) = Core(p2)

\* C12: the caller chooses neither Timestamp nor ID: every record built
\* at clock reading now has When = now and no ID; two payloads that differ
\* only in When and ID members decode alike and give the same record; and
\* the stored rows carry the keys the table assigns (1, 2) and that
\* clock reading.
C12_ServerAssigned ==
    call.done =>
        /\ \A k \in 1..2 :
              call.out[k].pc = "create" =>
                  (call.out[k].record.When = now /\ call.out[k].record.ID = 0)
        /\ Agree(call.payload[1], call.payload[2]) =>
              /\ call.out[1].pc = call.out[2].pc
              /\ call.out[1].record = call.out[2].record
        /\ db # <<>> =>
              /\ Len(db) = 2
              /\ db[1].ID = 1 /\ db[2].ID = 2
              /\ db[1].When = now /\ db[2].When = now

C12_Witness ==
    /\ call.done /\ Len(db) = 2
    /\ call.payload[1] # call.payload[2]
    /\ Agree(call.payload[1], call.payload[2])
    /\ ~HasMember(call.payload[1], "When")
    /\ HasMember(call.payload[2], "When") /\ HasMember(call.payload[2], "ID")
    /\ db[1].When = db[2].When /\ now = 1

----------------------------------------------------------------------------
(* submitHandler: C15 *)

\* C15: under fair scheduling of the handlers, with db.Create always
\* returning and with no assumption that any DialAndSend returns, every
\* request that has arrived is eventually answered (Rejected, Invalid or
\* Accepted).
C15_RequestsTerminate ==
    \A r \in Reqs : (req[r].pc # "idle") ~> (req[r].pc = "done")

C15_Witness ==
    /\ \A r \in Reqs : Accepted(req[r])
    /\ \A i \in DOMAIN mails : mails[i].state = "sending"
    /\ Len(mails) = MaxReqs

=============================================================================
